---------------------------- MODULE Spec2Model ----------------------------
(***************************************************************************)
(* Model of src/trace.cpp of EpiContactTrace: the contact index            *)
(* (buildContactsLookup), the three recursive traversals (doShortestPaths, *)
(* doTraceContacts, contactChain with VisitedNodes), degree, and the three *)
(* entry points shortestPaths, traceContacts and networkSummary.           *)
(*                                                                         *)
(* Identifiers are 1-based in the caller's arrays (src, dst, root) and     *)
(* 0-based inside the index; row ids are 0-based inside the index and      *)
(* 1-based in the output, as in the code.                                  *)
(***************************************************************************)
EXTENDS Integers, Sequences, FiniteSets, TLC

\* The enumerated inputs have at most MaxEvents rows.
MaxEvents == 3
\* A followed traversal is cut off at MaxDepth nested calls (C9 shows that
\* the code never nests more than numberOfIdentifiers calls).
MaxDepth == 6

VARIABLES
    src,                 \* SEXP src: source identifier of each row (1-based)
    dst,                 \* SEXP dst: destination identifier of each row (1-based)
    t,                   \* SEXP t: timestamp of each row
    numberOfIdentifiers, \* SEXP numberOfIdentifiers
    root,                \* SEXP root: the query roots (1-based)
    inBegin, inEnd,      \* per-root ingoing window
    outBegin, outEnd,    \* per-root outgoing window
    maxDistanceArg,      \* SEXP maxDistance of traceContacts (0 until it is called)
    mallocOk,            \* whether malloc in buildContactsLookup returned non-NULL
    pc,                  \* "call", or the entry point that has run
    error,               \* "" or the message passed to Rf_error
    returned,            \* the SEXP the entry point returned (result)
    \* One traversal followed call by call:
    kind,                \* "doShortestPaths", "doTraceContacts" or "contactChain"
    query,               \* the index i of the root it was started for
    dir,                 \* its argument ingoing
    lookup,              \* its argument data
    stack,               \* the active calls, the innermost last
    shortest,            \* doShortestPaths' argument result
    resultRowid,         \* doTraceContacts' argument resultRowid
    resultDistance,      \* doTraceContacts' argument resultDistance
    chainVisited         \* contactChain's argument visitedNodes

inputs == <<src, dst, t, numberOfIdentifiers, root, inBegin, inEnd, outBegin, outEnd>>
traversal == <<kind, query, dir, lookup, stack, shortest, resultRowid, resultDistance,
               chainVisited>>
vars == <<inputs, maxDistanceArg, mallocOk, pc, error, returned, traversal>>

----------------------------------------------------------------------------
(* Sequence helpers *)

RECURSIVE SortedKeys(_)
\* Ascending iteration order of a std::map<int, ...>'s keys.
SortedKeys(S) ==
    IF S = {} THEN <<>>
    ELSE LET m == CHOOSE x \in S : \A y \in S : x <= y
         IN  <<m>> \o SortedKeys(S \ {m})

\* R_orderVector(rowid, len, t, nalast = FALSE, decreasing = FALSE): the 0-based
\* row indices in ascending order of t, ties in ascending row order.
OrderVector(tt) ==
    LET len == Len(tt)
        Rank(j) == Cardinality({k \in 1..len :
                        tt[k] < tt[j] \/ (tt[k] = tt[j] /\ k < j)}) + 1
    IN  [p \in 1..len |-> (CHOOSE j \in 1..len : Rank(j) = p) - 1]

\* struct Contact {rowid, identifier, t}
Contact(rowid, identifier, ct) == [rowid |-> rowid, identifier |-> identifier, t |-> ct]

\* std::vector<std::map<int, Contacts> > data(numberOfIdentifiers)
EmptyLookup(n) == [node \in 0..(n - 1) |-> <<>>]

\* data[node][neighbor].push_back(c); operator[] creates the bucket if absent.
PushBack(data, node, neighbor, c) ==
    LET m == data[node]
        bucket == IF neighbor \in DOMAIN m THEN m[neighbor] ELSE <<>>
        m2 == [k \in (DOMAIN m) \cup {neighbor} |->
                  IF k = neighbor THEN Append(bucket, c) ELSE m[k]]
    IN  [data EXCEPT ![node] = m2]

RECURSIVE BuildLoop(_, _, _, _, _, _, _)
\* The loop of buildContactsLookup over rowid[i], i = 0 .. len-1 (here 1 .. len).
BuildLoop(i, rowid, ingoing, outgoing, s, d, tt) ==
    IF i > Len(rowid) THEN [ingoing |-> ingoing, outgoing |-> outgoing]
    ELSE LET j == rowid[i]
             zb_src == s[j + 1] - 1
             zb_dst == d[j + 1] - 1
         IN  BuildLoop(i + 1, rowid,
                       PushBack(ingoing, zb_dst, zb_src, Contact(j, zb_src, tt[j + 1])),
                       PushBack(outgoing, zb_src, zb_dst, Contact(j, zb_dst, tt[j + 1])),
                       s, d, tt)

\* buildContactsLookup: returns -1 and leaves both lookups untouched when
\* malloc fails, else fills them and returns 0.
buildContactsLookup(n, s, d, tt, ok) ==
    IF ~ok
    THEN [rc |-> -1, ingoing |-> EmptyLookup(n), outgoing |-> EmptyLookup(n)]
    ELSE LET b == BuildLoop(1, OrderVector(tt), EmptyLookup(n), EmptyLookup(n), s, d, tt)
         IN  [rc |-> 0, ingoing |-> b.ingoing, outgoing |-> b.outgoing]

RECURSIVE LowerBoundSearch(_, _, _, _)
\* std::lower_bound's halving over bucket positions lo .. hi-1 (1-based, hi
\* exclusive) with CompareContact(c, t): c.t < t.
LowerBoundSearch(bucket, tBegin, lo, hi) ==
    IF lo >= hi THEN lo
    ELSE LET mid == lo + ((hi - lo) \div 2)
         IN  IF bucket[mid].t < tBegin
             THEN LowerBoundSearch(bucket, tBegin, mid + 1, hi)
             ELSE LowerBoundSearch(bucket, tBegin, lo, mid)

RECURSIVE UpperBoundSearch(_, _, _, _)
\* std::upper_bound's halving with CompareContact(t, c): t < c.t.
UpperBoundSearch(bucket, tEnd, lo, hi) ==
    IF lo >= hi THEN lo
    ELSE LET mid == lo + ((hi - lo) \div 2)
         IN  IF ~(tEnd < bucket[mid].t)
             THEN UpperBoundSearch(bucket, tEnd, mid + 1, hi)
             ELSE UpperBoundSearch(bucket, tEnd, lo, mid)

\* std::lower_bound(bucket.begin(), bucket.end(), tBegin, CompareContact()):
\* position of the first contact with not (c.t < tBegin); Len+1 is end().
LowerBound(bucket, tBegin) == LowerBoundSearch(bucket, tBegin, 1, Len(bucket) + 1)

\* std::upper_bound(t_begin, bucket.end(), tEnd, CompareContact()):
\* position of the first contact at or after t_begin with tEnd < c.t.
UpperBound(bucket, t_begin, tEnd) == UpperBoundSearch(bucket, tEnd, t_begin, Len(bucket) + 1)

\* Mutant of Qualifies: the upper end of the window is not checked.
QualifiesNoUpperBound(bucket, t_begin, tEnd) == t_begin <= Len(bucket)

\* t_begin != it->second.end() && t_begin->t <= tEnd
Qualifies(bucket, t_begin, tEnd) ==
    t_begin <= Len(bucket) /\ bucket[t_begin].t <= tEnd

\* Mutant of ChildWindow: the ingoing window ends at the first contact in the
\* window instead of the last.
ChildWindowFirstContact(bucket, t_begin, tBegin, tEnd, ingoing) ==
    IF ingoing
    THEN <<tBegin, bucket[t_begin].t>>
    ELSE <<bucket[t_begin].t, tEnd>>

\* The window handed to the recursive call (t0, t1).
ChildWindow(bucket, t_begin, tBegin, tEnd, ingoing) ==
    IF ingoing
    THEN <<tBegin, bucket[UpperBound(bucket, t_begin, tEnd) - 1].t>>
    ELSE <<bucket[t_begin].t, tEnd>>

----------------------------------------------------------------------------
(* doShortestPaths *)

\* Mutant of NotOnPath: the test against the path is dropped.
NotOnPathAlways(visitedNodes, neighbor) == TRUE

\* visitedNodes.find(it->first) == visitedNodes.end()
NotOnPath(visitedNodes, neighbor) == neighbor \notin visitedNodes

\* Mutant of RecordShortest: the first entry of a node is never replaced.
RecordShortestKeepFirst(result, neighbor, distance, rowid) ==
    IF neighbor \notin DOMAIN result
    THEN [k \in (DOMAIN result) \cup {neighbor} |->
             IF k = neighbor THEN [first |-> distance, second |-> rowid + 1]
             ELSE result[k]]
    ELSE result

\* Mutant of RecordShortest: an equal distance replaces the entry too.
RecordShortestOrEqual(result, neighbor, distance, rowid) ==
    IF neighbor \notin DOMAIN result \/ distance <= result[neighbor].first
    THEN [k \in (DOMAIN result) \cup {neighbor} |->
             IF k = neighbor THEN [first |-> distance, second |-> rowid + 1]
             ELSE result[k]]
    ELSE result

\* Lines 200-214: store (distance, rowid + 1) on first discovery, or when the
\* new distance is strictly smaller than the stored one.
RecordShortest(result, neighbor, distance, rowid) ==
    IF neighbor \notin DOMAIN result
    THEN [k \in (DOMAIN result) \cup {neighbor} |->
             IF k = neighbor THEN [first |-> distance, second |-> rowid + 1]
             ELSE result[k]]
    ELSE IF distance < result[neighbor].first
         THEN [result EXCEPT ![neighbor] = [first |-> distance, second |-> rowid + 1]]
         ELSE result

RECURSIVE doShortestPaths(_, _, _, _, _, _, _, _)
RECURSIVE ShortestPathsLoop(_, _, _, _, _, _, _, _, _)
\* The for loop of doShortestPaths over the remaining keys `its` of data[node].
ShortestPathsLoop(data, node, tBegin, tEnd, visitedNodes, distance, ingoing, result, its) ==
    IF its = <<>> THEN result
    ELSE LET neighbor == Head(its)
             bucket == data[node][neighbor]
             t_begin == LowerBound(bucket, tBegin)
         IN  IF NotOnPath(visitedNodes, neighbor) /\ Qualifies(bucket, t_begin, tEnd)
             THEN LET w == ChildWindow(bucket, t_begin, tBegin, tEnd, ingoing)
                      r1 == RecordShortest(result, neighbor, distance, bucket[t_begin].rowid)
                      r2 == doShortestPaths(data, neighbor, w[1], w[2], visitedNodes,
                                            distance + 1, ingoing, r1)
                  IN  ShortestPathsLoop(data, node, tBegin, tEnd, visitedNodes,
                                        distance, ingoing, r2, Tail(its))
             ELSE ShortestPathsLoop(data, node, tBegin, tEnd, visitedNodes,
                                    distance, ingoing, result, Tail(its))

\* doShortestPaths: visitedNodes is passed by value, so the insert is local
\* to this call and the calls below it.
doShortestPaths(data, node, tBegin, tEnd, visitedNodes, distance, ingoing, result) ==
    ShortestPathsLoop(data, node, tBegin, tEnd, visitedNodes \cup {node}, distance,
                      ingoing, result, SortedKeys(DOMAIN data[node]))

----------------------------------------------------------------------------
(* doTraceContacts *)

\* Mutant of TraceRecords: only the first qualifying contact is pushed.
TraceRecordsFirstOnly(bucket, t_begin, t_end, distance) ==
    [resultRowid |-> <<bucket[t_begin].rowid + 1>>, resultDistance |-> <<distance>>]

\* Lines 401-407: push (rowid + 1, distance) for every contact in [t_begin, t_end).
TraceRecords(bucket, t_begin, t_end, distance) ==
    [resultRowid |-> [k \in 1..(t_end - t_begin) |-> bucket[t_begin + k - 1].rowid + 1],
     resultDistance |-> [k \in 1..(t_end - t_begin) |-> distance]]

\* Mutant of StopDescending: maxDistance = 0 is taken as a limit too.
StopDescendingAtZero(maxDistance, distance) == distance >= maxDistance

\* if (maxDistance > 0 && distance >= maxDistance) continue;
StopDescending(maxDistance, distance) == maxDistance > 0 /\ distance >= maxDistance

RECURSIVE doTraceContacts(_, _, _, _, _, _, _, _, _)
RECURSIVE TraceContactsLoop(_, _, _, _, _, _, _, _, _, _)
\* The for loop of doTraceContacts over the remaining keys `its` of data[node];
\* res is the pair (resultRowid, resultDistance).
TraceContactsLoop(data, node, tBegin, tEnd, visitedNodes, distance, ingoing, res, maxDistance, its) ==
    IF its = <<>> THEN res
    ELSE LET neighbor == Head(its)
             bucket == data[node][neighbor]
             t_begin == LowerBound(bucket, tBegin)
         IN  IF NotOnPath(visitedNodes, neighbor) /\ Qualifies(bucket, t_begin, tEnd)
             THEN LET t_end == UpperBound(bucket, t_begin, tEnd)
                      rec == TraceRecords(bucket, t_begin, t_end, distance)
                      r1 == [resultRowid |-> res.resultRowid \o rec.resultRowid,
                             resultDistance |-> res.resultDistance \o rec.resultDistance]
                      w == ChildWindow(bucket, t_begin, tBegin, tEnd, ingoing)
                      r2 == IF StopDescending(maxDistance, distance) THEN r1
                            ELSE doTraceContacts(data, neighbor, w[1], w[2], visitedNodes,
                                                 distance + 1, ingoing, r1, maxDistance)
                  IN  TraceContactsLoop(data, node, tBegin, tEnd, visitedNodes, distance,
                                        ingoing, r2, maxDistance, Tail(its))
             ELSE TraceContactsLoop(data, node, tBegin, tEnd, visitedNodes, distance,
                                    ingoing, res, maxDistance, Tail(its))

doTraceContacts(data, node, tBegin, tEnd, visitedNodes, distance, ingoing, res, maxDistance) ==
    TraceContactsLoop(data, node, tBegin, tEnd, visitedNodes \cup {node}, distance,
                      ingoing, res, maxDistance, SortedKeys(DOMAIN data[node]))

----------------------------------------------------------------------------
(* VisitedNodes, degree, contactChain *)

\* VisitedNodes(numberOfIdentifiers): no node visited, every pair (false, 0).
NewVisitedNodes(n) ==
    [numberOfVisitedNodes |-> 0,
     visitedNodes |-> [node \in 0..(n - 1) |-> [first |-> FALSE, second |-> 0]]]

\* Mutant of Update: a first visit is not counted.
UpdateNoCount(vn, node, tBegin, tEnd, ingoing) ==
    [vn EXCEPT !.visitedNodes[node] =
        [first |-> TRUE, second |-> IF ingoing THEN tEnd ELSE tBegin]]

\* VisitedNodes::Update
Update(vn, node, tBegin, tEnd, ingoing) ==
    IF vn.visitedNodes[node].first
    THEN IF ingoing
         THEN IF tEnd > vn.visitedNodes[node].second
              THEN [vn EXCEPT !.visitedNodes[node].second = tEnd]
              ELSE vn
         ELSE IF tBegin < vn.visitedNodes[node].second
              THEN [vn EXCEPT !.visitedNodes[node].second = tBegin]
              ELSE vn
    ELSE [numberOfVisitedNodes |-> vn.numberOfVisitedNodes + 1,
          visitedNodes |-> [vn.visitedNodes EXCEPT
              ![node] = [first |-> TRUE, second |-> IF ingoing THEN tEnd ELSE tBegin]]]

\* Mutant of Visit: a visited node is never entered again.
VisitUnvisitedOnly(vn, node, tBegin, tEnd, ingoing) == ~vn.visitedNodes[node].first

\* Mutant of Visit: every neighbor may be entered.
VisitAlways(vn, node, tBegin, tEnd, ingoing) == TRUE

\* Mutant of Visit: a bound equal to the stored one also allows entry.
VisitOrEqual(vn, node, tBegin, tEnd, ingoing) ==
    IF vn.visitedNodes[node].first
    THEN IF ingoing
         THEN ~(tEnd < vn.visitedNodes[node].second)
         ELSE ~(tBegin > vn.visitedNodes[node].second)
    ELSE TRUE

\* VisitedNodes::Visit
Visit(vn, node, tBegin, tEnd, ingoing) ==
    IF vn.visitedNodes[node].first
    THEN IF ingoing
         THEN ~(tEnd <= vn.visitedNodes[node].second)
         ELSE ~(tBegin >= vn.visitedNodes[node].second)
    ELSE TRUE

\* Mutant of NotSelf: self-loops are counted.
NotSelfAlways(node, neighbor) == TRUE

\* if (node != it->first) in degree
NotSelf(node, neighbor) == node # neighbor

\* degree
degree(data, node, tBegin, tEnd) ==
    Cardinality({neighbor \in DOMAIN data[node] :
        /\ NotSelf(node, neighbor)
        /\ Qualifies(data[node][neighbor], LowerBound(data[node][neighbor], tBegin), tEnd)})

RECURSIVE contactChain(_, _, _, _, _, _)
RECURSIVE ContactChainLoop(_, _, _, _, _, _, _, _)
\* The for loop of contactChain over the remaining keys `its` of data[node].
\* Besides visitedNodes it yields `entered`, the neighbors on which this loop
\* called contactChain (not a variable of the code: it names the calls).
ContactChainLoop(data, node, tBegin, tEnd, vn, ingoing, its, entered) ==
    IF its = <<>> THEN [visitedNodes |-> vn, entered |-> entered]
    ELSE LET neighbor == Head(its)
             bucket == data[node][neighbor]
             t_begin == LowerBound(bucket, tBegin)
         IN  IF Visit(vn, neighbor, tBegin, tEnd, ingoing) /\ Qualifies(bucket, t_begin, tEnd)
             THEN LET w == ChildWindow(bucket, t_begin, tBegin, tEnd, ingoing)
                      v2 == contactChain(data, neighbor, w[1], w[2], vn, ingoing)
                  IN  ContactChainLoop(data, node, tBegin, tEnd, v2, ingoing, Tail(its),
                                       entered \cup {neighbor})
             ELSE ContactChainLoop(data, node, tBegin, tEnd, vn, ingoing, Tail(its), entered)

\* The body of contactChain after the call's own Update.
ContactChainBody(data, node, tBegin, tEnd, vn, ingoing) ==
    ContactChainLoop(data, node, tBegin, tEnd, Update(vn, node, tBegin, tEnd, ingoing),
                     ingoing, SortedKeys(DOMAIN data[node]), {})

\* contactChain: visitedNodes is passed by reference and shared by all calls.
contactChain(data, node, tBegin, tEnd, vn, ingoing) ==
    ContactChainBody(data, node, tBegin, tEnd, vn, ingoing).visitedNodes

----------------------------------------------------------------------------
(* Entry points.  check_arguments only rejects absent or non-integer        *)
(* arguments; the inputs here are always integer vectors, so it returns 0.  *)

\* The three kv_push columns of one root's map, in ascending key order.
MapColumns(map, i) ==
    LET keys == SortedKeys(DOMAIN map)
    IN  [distance |-> [k \in 1..Len(keys) |-> map[keys[k]].first],
         rowid |-> [k \in 1..Len(keys) |-> map[keys[k]].second],
         index |-> [k \in 1..Len(keys) |-> i]]

RECURSIVE ShortestPathsRoots(_, _, _)
\* The loop of shortestPaths over the roots i .. len (1-based here, so the
\* code's i + 1 is i).
ShortestPathsRoots(b, i, acc) ==
    IF i > Len(root) THEN acc
    ELSE LET ingoingShortestPaths ==
                 doShortestPaths(b.ingoing, root[i] - 1, inBegin[i], inEnd[i],
                                 {}, 1, TRUE, <<>>)
             outgoingShortestPaths ==
                 doShortestPaths(b.outgoing, root[i] - 1, outBegin[i], outEnd[i],
                                 {}, 1, FALSE, <<>>)
             ci == MapColumns(ingoingShortestPaths, i)
             co == MapColumns(outgoingShortestPaths, i)
         IN  ShortestPathsRoots(b, i + 1,
                 [inDistance |-> acc.inDistance \o ci.distance,
                  inRowid |-> acc.inRowid \o ci.rowid,
                  inIndex |-> acc.inIndex \o ci.index,
                  outDistance |-> acc.outDistance \o co.distance,
                  outRowid |-> acc.outRowid \o co.rowid,
                  outIndex |-> acc.outIndex \o co.index])

\* shortestPaths: the return value of buildContactsLookup is not looked at.
shortestPaths(ok) ==
    LET b == buildContactsLookup(numberOfIdentifiers, src, dst, t, ok)
    IN  [error |-> "",
         result |-> ShortestPathsRoots(b, 1,
                        [inDistance |-> <<>>, inRowid |-> <<>>, inIndex |-> <<>>,
                         outDistance |-> <<>>, outRowid |-> <<>>, outIndex |-> <<>>])]

NoRecords == [resultRowid |-> <<>>, resultDistance |-> <<>>]

RECURSIVE TraceContactsRoots(_, _, _, _)
\* The loop of traceContacts over the roots: four vectors per root.
TraceContactsRoots(b, m, i, acc) ==
    IF i > Len(root) THEN acc
    ELSE LET rin == doTraceContacts(b.ingoing, root[i] - 1, inBegin[i], inEnd[i],
                                    {}, 1, TRUE, NoRecords, m)
             rout == doTraceContacts(b.outgoing, root[i] - 1, outBegin[i], outEnd[i],
                                     {}, 1, FALSE, NoRecords, m)
         IN  TraceContactsRoots(b, m, i + 1,
                 acc \o <<rin.resultRowid, rin.resultDistance,
                          rout.resultRowid, rout.resultDistance>>)

\* traceContacts: the return value of buildContactsLookup is not looked at.
traceContacts(ok, m) ==
    LET b == buildContactsLookup(numberOfIdentifiers, src, dst, t, ok)
    IN  [error |-> "", result |-> TraceContactsRoots(b, m, 1, <<>>)]

RECURSIVE NetworkSummaryRoots(_, _, _)
\* The loop of networkSummary over the roots.
NetworkSummaryRoots(b, i, acc) ==
    IF i > Len(root) THEN acc
    ELSE LET visitedNodesIngoing ==
                 contactChain(b.ingoing, root[i] - 1, inBegin[i], inEnd[i],
                              NewVisitedNodes(numberOfIdentifiers), TRUE)
             visitedNodesOutgoing ==
                 contactChain(b.outgoing, root[i] - 1, outBegin[i], outEnd[i],
                              NewVisitedNodes(numberOfIdentifiers), FALSE)
         IN  NetworkSummaryRoots(b, i + 1,
                 [inDegree |-> Append(acc.inDegree,
                      degree(b.ingoing, root[i] - 1, inBegin[i], inEnd[i])),
                  outDegree |-> Append(acc.outDegree,
                      degree(b.outgoing, root[i] - 1, outBegin[i], outEnd[i])),
                  ingoingContactChain |-> Append(acc.ingoingContactChain,
                      visitedNodesIngoing.numberOfVisitedNodes - 1),
                  outgoingContactChain |-> Append(acc.outgoingContactChain,
                      visitedNodesOutgoing.numberOfVisitedNodes - 1)])

\* networkSummary: a build error goes to cleanup and Rf_error; no result.
networkSummary(ok) ==
    LET b == buildContactsLookup(numberOfIdentifiers, src, dst, t, ok)
    IN  IF b.rc # 0
        THEN [error |-> "Unable to calculate network summary", result |-> <<>>]
        ELSE [error |-> "",
              result |-> NetworkSummaryRoots(b, 1,
                             [inDegree |-> <<>>, outDegree |-> <<>>,
                              ingoingContactChain |-> <<>>,
                              outgoingContactChain |-> <<>>])]

----------------------------------------------------------------------------
(* Inputs *)

\* The identifiers and timestamps the enumerated rows are drawn from.
Identifiers == 1..3
Times == 1..2
NumNodes == Cardinality(Identifiers)
MaxT == Cardinality(Times)

\* The events (src, dst, t) numbered 0 .. NumNodes * NumNodes * MaxT - 1.
EventOf(c) ==
    [src |-> (c \div (NumNodes * MaxT)) + 1,
     dst |-> ((c \div MaxT) % NumNodes) + 1,
     t |-> (c % MaxT) + 1]

RECURSIVE EventLists(_, _)
\* The row lists of length k whose event numbers do not increase and are at
\* most c: every multiset of events once, each bucket's rows in descending
\* time order (so the index builder has to reorder them).
EventLists(k, c) ==
    IF k = 0 THEN {<<>>}
    ELSE UNION {{<<EventOf(x)>> \o rest : rest \in EventLists(k - 1, x)} : x \in 0..c}

Rows == UNION {EventLists(k, NumNodes * NumNodes * MaxT - 1) : k \in 0..MaxEvents}

Column(rows, f) == [k \in 1..Len(rows) |-> rows[k][f]]

\* Every row list within the bounds, one root, one window for both directions.
BoundedInputs ==
    {[src |-> Column(rows, "src"), dst |-> Column(rows, "dst"), t |-> Column(rows, "t"),
      numberOfIdentifiers |-> NumNodes, root |-> <<r>>,
      inBegin |-> <<b>>, inEnd |-> <<e>>, outBegin |-> <<b>>, outEnd |-> <<e>>] :
        rows \in Rows, r \in Identifiers, b \in Times, e \in Times}

\* The example of the specification's section 8.
ExampleInput ==
    [src |-> <<1, 2, 1>>, dst |-> <<2, 3, 3>>, t |-> <<10, 20, 5>>,
     numberOfIdentifiers |-> 3, root |-> <<1>>,
     inBegin |-> <<0>>, inEnd |-> <<100>>, outBegin |-> <<0>>, outEnd |-> <<100>>]

\* Four nodes: node 1 is entered from the root 4 at time 2, then again through
\* node 2 at time 1, and only then is node 3 within its window.
RevisitInput ==
    [src |-> <<4, 4, 2, 1>>, dst |-> <<1, 2, 1, 3>>, t |-> <<2, 1, 1, 1>>,
     numberOfIdentifiers |-> 4, root |-> <<4>>,
     inBegin |-> <<1>>, inEnd |-> <<2>>, outBegin |-> <<1>>, outEnd |-> <<2>>]

\* No events at all, with zero, one and two roots.
EmptyInputs ==
    {[src |-> <<>>, dst |-> <<>>, t |-> <<>>, numberOfIdentifiers |-> NumNodes,
      root |-> rs, inBegin |-> [k \in DOMAIN rs |-> 1], inEnd |-> [k \in DOMAIN rs |-> MaxT],
      outBegin |-> [k \in DOMAIN rs |-> 1], outEnd |-> [k \in DOMAIN rs |-> MaxT]] :
        rs \in {<<>>, <<1>>, <<2, 1>>}}

\* The example asked for two roots with different windows per direction.
TwoRootsInput ==
    [src |-> <<1, 2, 1>>, dst |-> <<2, 3, 3>>, t |-> <<10, 20, 5>>,
     numberOfIdentifiers |-> 3, root |-> <<3, 1>>,
     inBegin |-> <<0, 0>>, inEnd |-> <<100, 100>>,
     outBegin |-> <<0, 6>>, outEnd |-> <<100, 100>>]

\* Four nodes: identifier 4 is two hops from the root 1 through 2 and, at the
\* same distance, through 3.
TieInput ==
    [src |-> <<1, 1, 2, 3>>, dst |-> <<2, 3, 4, 4>>, t |-> <<1, 1, 2, 2>>,
     numberOfIdentifiers |-> 4, root |-> <<1>>,
     inBegin |-> <<1>>, inEnd |-> <<2>>, outBegin |-> <<1>>, outEnd |-> <<2>>]

Inputs ==
    BoundedInputs \cup {ExampleInput, RevisitInput, TwoRootsInput, TieInput} \cup EmptyInputs

\* Whether the rows of the state are those of the input in.
RowsOf(in) == src = in.src /\ dst = in.dst /\ t = in.t /\ root = in.root

Init ==
    /\ \E in \in Inputs :
        /\ src = in.src /\ dst = in.dst /\ t = in.t
        /\ numberOfIdentifiers = in.numberOfIdentifiers
        /\ root = in.root
        /\ inBegin = in.inBegin /\ inEnd = in.inEnd
        /\ outBegin = in.outBegin /\ outEnd = in.outEnd
    /\ maxDistanceArg = 0
    /\ mallocOk = TRUE
    /\ pc = "call"
    /\ error = ""
    /\ returned = <<>>
    /\ kind = "" /\ query = 0 /\ dir = FALSE /\ lookup = <<>> /\ stack = <<>>
    /\ shortest = <<>> /\ resultRowid = <<>> /\ resultDistance = <<>>
    /\ chainVisited = NewVisitedNodes(0)

\* The hop limits tried: none, and 1 .. NumNodes.
MaxDistances == 0..NumNodes

ShortestPathsCall ==
    /\ pc = "call"
    /\ \E ok \in BOOLEAN :
        LET r == shortestPaths(ok)
        IN  /\ mallocOk' = ok
            /\ error' = r.error
            /\ returned' = r.result
    /\ pc' = "shortestPaths"
    /\ UNCHANGED <<inputs, maxDistanceArg, traversal>>

TraceContactsCall ==
    /\ pc = "call"
    /\ \E ok \in BOOLEAN, m \in MaxDistances :
        LET r == traceContacts(ok, m)
        IN  /\ mallocOk' = ok
            /\ maxDistanceArg' = m
            /\ error' = r.error
            /\ returned' = r.result
    /\ pc' = "traceContacts"
    /\ UNCHANGED <<inputs, traversal>>

NetworkSummaryCall ==
    /\ pc = "call"
    /\ \E ok \in BOOLEAN :
        LET r == networkSummary(ok)
        IN  /\ mallocOk' = ok
            /\ error' = r.error
            /\ returned' = r.result
    /\ pc' = "networkSummary"
    /\ UNCHANGED <<inputs, maxDistanceArg, traversal>>

Next == ShortestPathsCall \/ TraceContactsCall \/ NetworkSummaryCall

Spec == Init /\ [][Next]_vars

----------------------------------------------------------------------------
(* One traversal, call by call.  A frame of the stack is one active call:    *)
(* its arguments node, tBegin, tEnd, visitedNodes (after the insert) and    *)
(* distance, and `its`, the keys of data[node] its loop has still to look   *)
(* at.  The index is the one buildContactsLookup builds when malloc         *)
(* succeeds.                                                                *)

Frame(data, node, tBegin, tEnd, visitedNodes, distance) ==
    [node |-> node, tBegin |-> tBegin, tEnd |-> tEnd, visitedNodes |-> visitedNodes,
     distance |-> distance, its |-> SortedKeys(DOMAIN data[node])]

Top == stack[Len(stack)]
\* The stack with the innermost call's iterator advanced (++it).
Advanced == [stack EXCEPT ![Len(stack)].its = Tail(@)]
\* The bucket the innermost call is looking at, and its lower bound.
TopBucket == lookup[Top.node][Head(Top.its)]
TopLower == LowerBound(TopBucket, Top.tBegin)

\* The hop limits a followed doTraceContacts is started with.
FollowedDistances == {0, 1, 2}

\* The first call of a traversal, as the entry points make it for root i.
Begin(k, i, ingoing, m) ==
    LET b == buildContactsLookup(numberOfIdentifiers, src, dst, t, TRUE)
        data == IF ingoing THEN b.ingoing ELSE b.outgoing
        node == root[i] - 1
        tBegin == IF ingoing THEN inBegin[i] ELSE outBegin[i]
        tEnd == IF ingoing THEN inEnd[i] ELSE outEnd[i]
    IN  /\ pc = "call"
        /\ pc' = "running"
        /\ kind' = k /\ query' = i /\ dir' = ingoing /\ lookup' = data
        /\ maxDistanceArg' = m
        /\ stack' = <<Frame(data, node, tBegin, tEnd,
                            IF k = "contactChain" THEN {} ELSE {node}, 1)>>
        /\ chainVisited' = IF k = "contactChain"
                           THEN Update(NewVisitedNodes(numberOfIdentifiers),
                                       node, tBegin, tEnd, ingoing)
                           ELSE chainVisited
        /\ UNCHANGED <<inputs, mallocOk, error, returned, shortest, resultRowid,
                       resultDistance>>

BeginShortestPaths ==
    \E i \in DOMAIN root, ingoing \in BOOLEAN : Begin("doShortestPaths", i, ingoing, 0)

BeginTraceContacts ==
    \E i \in DOMAIN root, ingoing \in BOOLEAN, m \in FollowedDistances :
        Begin("doTraceContacts", i, ingoing, m)

BeginContactChain ==
    \E i \in DOMAIN root, ingoing \in BOOLEAN : Begin("contactChain", i, ingoing, 0)

\* Whether the innermost call's loop is at a key (it != end).
AtKey == pc = "running" /\ stack # <<>> /\ Top.its # <<>>

\* The neighbor the innermost call looks at passes its tests: it is not on
\* the path (or Visit allows it) and its bucket has a contact in the window.
Passes ==
    /\ IF kind = "contactChain"
       THEN Visit(chainVisited, Head(Top.its), Top.tBegin, Top.tEnd, dir)
       ELSE NotOnPath(Top.visitedNodes, Head(Top.its))
    /\ Qualifies(TopBucket, TopLower, Top.tEnd)

\* The recursive call on the neighbor, on top of the caller advanced.
Pushed(visitedNodes) ==
    LET w == ChildWindow(TopBucket, TopLower, Top.tBegin, Top.tEnd, dir)
    IN  Append(Advanced, Frame(lookup, Head(Top.its), w[1], w[2], visitedNodes,
                               Top.distance + 1))

\* The neighbor does not pass: the loop goes on to the next key.
SkipNeighbor ==
    /\ AtKey /\ ~Passes
    /\ stack' = Advanced
    /\ UNCHANGED <<inputs, maxDistanceArg, mallocOk, pc, error, returned, kind, query,
                   dir, lookup, shortest, resultRowid, resultDistance, chainVisited>>

\* doShortestPaths, lines 197-239: record the neighbor and call on it.
ShortestPathsNeighbor ==
    /\ AtKey /\ kind = "doShortestPaths" /\ Passes
    /\ Len(stack) < MaxDepth
    /\ shortest' = RecordShortest(shortest, Head(Top.its), Top.distance,
                                  TopBucket[TopLower].rowid)
    /\ stack' = Pushed(Top.visitedNodes \cup {Head(Top.its)})
    /\ UNCHANGED <<inputs, maxDistanceArg, mallocOk, pc, error, returned, kind, query,
                   dir, lookup, resultRowid, resultDistance, chainVisited>>

\* doTraceContacts, lines 391-430: push the bucket's records, then either
\* continue (hop limit reached) or call on the neighbor.
TraceContactsNeighbor ==
    /\ AtKey /\ kind = "doTraceContacts" /\ Passes
    /\ Len(stack) < MaxDepth
    /\ LET rec == TraceRecords(TopBucket, TopLower,
                               UpperBound(TopBucket, TopLower, Top.tEnd), Top.distance)
       IN  /\ resultRowid' = resultRowid \o rec.resultRowid
           /\ resultDistance' = resultDistance \o rec.resultDistance
    /\ stack' = IF StopDescending(maxDistanceArg, Top.distance)
                THEN Advanced
                ELSE Pushed(Top.visitedNodes \cup {Head(Top.its)})
    /\ UNCHANGED <<inputs, maxDistanceArg, mallocOk, pc, error, returned, kind, query,
                   dir, lookup, shortest, chainVisited>>

\* contactChain, lines 561-589: call on the neighbor, whose first statement
\* is the Update with the window of that call.
ContactChainNeighbor ==
    /\ AtKey /\ kind = "contactChain" /\ Passes
    /\ Len(stack) < MaxDepth
    /\ LET w == ChildWindow(TopBucket, TopLower, Top.tBegin, Top.tEnd, dir)
       IN  chainVisited' = Update(chainVisited, Head(Top.its), w[1], w[2], dir)
    /\ stack' = Pushed({})
    /\ UNCHANGED <<inputs, maxDistanceArg, mallocOk, pc, error, returned, kind, query,
                   dir, lookup, shortest, resultRowid, resultDistance>>

\* The innermost call's loop is over: it returns; the traversal has returned
\* when the first call does.
Return ==
    /\ pc = "running" /\ stack # <<>> /\ Top.its = <<>>
    /\ stack' = SubSeq(stack, 1, Len(stack) - 1)
    /\ pc' = IF Len(stack) = 1 THEN "returned" ELSE pc
    /\ UNCHANGED <<inputs, maxDistanceArg, mallocOk, error, returned, kind, query, dir,
                   lookup, shortest, resultRowid, resultDistance, chainVisited>>

StepNext ==
    \/ BeginShortestPaths \/ BeginTraceContacts \/ BeginContactChain
    \/ SkipNeighbor \/ ShortestPathsNeighbor \/ TraceContactsNeighbor
    \/ ContactChainNeighbor \/ Return

StepSpec == Init /\ [][StepNext]_vars

\* The steps of a traversal that has begun.
RunStep ==
    \/ SkipNeighbor \/ ShortestPathsNeighbor \/ TraceContactsNeighbor
    \/ ContactChainNeighbor \/ Return

\* A traversal that has begun and can take a step takes it: the code is
\* sequential and runs each call to its end.  Whether a traversal begins is
\* the caller's choice.
FairStepSpec == StepSpec /\ WF_vars(RunStep)

\* The followed traversal ends with what the recursive definition computes.
StepAgrees ==
    pc = "returned" =>
        LET node == root[query] - 1
            tBegin == IF dir THEN inBegin[query] ELSE outBegin[query]
            tEnd == IF dir THEN inEnd[query] ELSE outEnd[query]
        IN  /\ kind = "doShortestPaths" =>
                  shortest = doShortestPaths(lookup, node, tBegin, tEnd, {}, 1, dir, <<>>)
            /\ kind = "doTraceContacts" =>
                  [resultRowid |-> resultRowid, resultDistance |-> resultDistance]
                      = doTraceContacts(lookup, node, tBegin, tEnd, {}, 1, dir,
                                        NoRecords, maxDistanceArg)
            /\ kind = "contactChain" =>
                  chainVisited = contactChain(lookup, node, tBegin, tEnd,
                                    NewVisitedNodes(numberOfIdentifiers), dir)

----------------------------------------------------------------------------
(* Reference notions, stated on the caller's rows rather than on the index. *)

\* The rows the index holds: all of them, or none when malloc failed.
IndexedRows == IF mallocOk THEN DOMAIN t ELSE {}

\* The query window of root i in a direction.
WindowBegin(i, ingoing) == IF ingoing THEN inBegin[i] ELSE outBegin[i]
WindowEnd(i, ingoing) == IF ingoing THEN inEnd[i] ELSE outEnd[i]

\* One more contact on a time-respecting path inside the window [b, e].  A
\* pair <<v, tau>> says that a path ends at identifier v with a contact at
\* time tau.  Outgoing paths follow rows from src to dst at non-decreasing
\* times, ingoing paths follow rows from dst to src at non-increasing times.
Extend(S, ingoing, b, e) ==
    {<<IF ingoing THEN src[k] ELSE dst[k], t[k]>> :
        k \in {r \in IndexedRows :
                 /\ b <= t[r] /\ t[r] <= e
                 /\ \E p \in S :
                      /\ p[1] = (IF ingoing THEN dst[r] ELSE src[r])
                      /\ IF ingoing THEN t[r] <= p[2] ELSE t[r] >= p[2]}}

RECURSIVE PathEnds(_, _, _)
\* The ends of the time-respecting paths of exactly h contacts from root i.
PathEnds(i, ingoing, h) ==
    IF h = 0
    THEN {<<root[i], IF ingoing THEN WindowEnd(i, TRUE) ELSE WindowBegin(i, FALSE)>>}
    ELSE Extend(PathEnds(i, ingoing, h - 1), ingoing,
                WindowBegin(i, ingoing), WindowEnd(i, ingoing))

\* The identifiers a path of exactly h contacts ends at.
EndsAt(i, ingoing, h) == {p[1] : p \in PathEnds(i, ingoing, h)}

\* Identifiers other than the root reachable by a time-respecting path (a
\* shortest one never repeats a node, so numberOfIdentifiers hops suffice).
Reachable(i, ingoing) ==
    UNION {EndsAt(i, ingoing, h) : h \in 1..numberOfIdentifiers} \ {root[i]}

\* The least number of contacts on a time-respecting path from root i to v.
MinHops(i, ingoing, v) ==
    CHOOSE h \in 1..numberOfIdentifiers :
        /\ v \in EndsAt(i, ingoing, h)
        /\ \A g \in 1..(h - 1) : v \notin EndsAt(i, ingoing, g)

----------------------------------------------------------------------------
(* Claims about the results of the entry points *)

\* The positions of root i in an index column.
PositionsOf(index, i) == {k \in DOMAIN index : index[k] = i}

\* The identifier a reported row leads to: its source for an ingoing
\* traversal, its destination for an outgoing one.
ReachedBy(rowid, ingoing) == IF ingoing THEN src[rowid] ELSE dst[rowid]

ShortestExact(i, ingoing) ==
    LET distance == IF ingoing THEN returned.inDistance ELSE returned.outDistance
        rowid == IF ingoing THEN returned.inRowid ELSE returned.outRowid
        index == IF ingoing THEN returned.inIndex ELSE returned.outIndex
        ks == PositionsOf(index, i)
    IN  /\ {ReachedBy(rowid[k], ingoing) : k \in ks} = Reachable(i, ingoing)
        /\ Cardinality(ks) = Cardinality(Reachable(i, ingoing))
        /\ \A k \in ks :
              /\ distance[k] = MinHops(i, ingoing, ReachedBy(rowid[k], ingoing))
              /\ distance[k] >= 1

\* C1: for every root, direction and window, the map doShortestPaths returns
\* holds exactly the identifiers other than the root that a time-respecting
\* path of contacts inside the window reaches, each with the least number of
\* hops over all such paths, which is at least 1.
C1_ShortestPathsExact ==
    pc = "shortestPaths" =>
        \A i \in DOMAIN root : \A ingoing \in BOOLEAN : ShortestExact(i, ingoing)

\* An outgoing traversal in which identifier v is found first at distance 2,
\* through the smaller identifier u, and then again directly at distance 1.
C1_Witness ==
    /\ pc = "shortestPaths" /\ mallocOk
    /\ \E i \in DOMAIN root : \E u, v \in Reachable(i, FALSE) :
          /\ u < v
          /\ MinHops(i, FALSE, u) = 1 /\ MinHops(i, FALSE, v) = 1
          /\ \E r1, r2 \in DOMAIN t :
                /\ src[r1] = root[i] /\ dst[r1] = u
                /\ src[r2] = u /\ dst[r2] = v
                /\ outBegin[i] <= t[r1] /\ t[r1] <= t[r2] /\ t[r2] <= outEnd[i]
          /\ \E k \in DOMAIN returned.outDistance :
                dst[returned.outRowid[k]] = v /\ returned.outDistance[k] = 1

\* C2: the chain size networkSummary reports (VisitedNodes.N() - 1) is the
\* number of distinct identifiers other than the root that a time-respecting
\* path inside the window reaches.
C2_ChainSizeExact ==
    (pc = "networkSummary" /\ error = "") =>
        \A i \in DOMAIN root :
            /\ returned.ingoingContactChain[i] = Cardinality(Reachable(i, TRUE))
            /\ returned.outgoingContactChain[i] = Cardinality(Reachable(i, FALSE))

\* A chain in which a node is reachable only through a node that is entered
\* twice: first with a late bound, then with an earlier one.
C2_Witness ==
    /\ pc = "networkSummary" /\ error = ""
    /\ src = RevisitInput.src /\ dst = RevisitInput.dst /\ t = RevisitInput.t
    /\ root = RevisitInput.root
    /\ returned.outgoingContactChain = <<3>>

RECURSIVE KeepWithin(_, _, _)
\* The entries k of the vector v whose distance[k] is at most m, in order.
KeepWithin(v, distance, m) ==
    IF v = <<>> THEN <<>>
    ELSE (IF Head(distance) <= m THEN <<Head(v)>> ELSE <<>>)
             \o KeepWithin(Tail(v), Tail(distance), m)

\* What traceContacts returns when no hop limit can bind: a path never
\* repeats a node, so no distance reaches numberOfIdentifiers.
Unlimited == traceContacts(mallocOk, numberOfIdentifiers).result

\* C4: with maxDistance = m > 0 traceContacts reports no record at a distance
\* above m and still reports every record at distance m (its vectors are the
\* unlimited traversal's, cut to the distances <= m); with maxDistance = 0 it
\* reports exactly what the unlimited traversal reports.
C4_MaxDistance ==
    pc = "traceContacts" =>
        /\ Len(returned) = Len(Unlimited)
        /\ \A j \in DOMAIN returned :
              LET d == IF j % 2 = 0 THEN j ELSE j + 1   \* the distance vector of j
              IN  IF maxDistanceArg = 0
                  THEN returned[j] = Unlimited[j]
                  ELSE /\ returned[j] = KeepWithin(Unlimited[j], Unlimited[d], maxDistanceArg)
                       /\ \A k \in DOMAIN returned[d] : returned[d][k] <= maxDistanceArg

\* A limit m > 0 that cuts the traversal: records at distance m are reported
\* and the unlimited traversal has records beyond m.
C4_Witness ==
    /\ pc = "traceContacts" /\ mallocOk /\ maxDistanceArg > 0
    /\ \E j \in DOMAIN returned :
          /\ j % 2 = 0
          /\ \E k \in DOMAIN returned[j] : returned[j][k] = maxDistanceArg
          /\ \E k \in DOMAIN Unlimited[j] : Unlimited[j][k] > maxDistanceArg

\* The neighbors on which the root's own call of contactChain calls
\* contactChain: the nodes the traversal enters at hop 1.
EnteredAtHopOne(i, ingoing) ==
    LET b == buildContactsLookup(numberOfIdentifiers, src, dst, t, mallocOk)
    IN  ContactChainBody(IF ingoing THEN b.ingoing ELSE b.outgoing, root[i] - 1,
                         WindowBegin(i, ingoing), WindowEnd(i, ingoing),
                         NewVisitedNodes(numberOfIdentifiers), ingoing).entered

Degree(i, ingoing) == IF ingoing THEN returned.inDegree[i] ELSE returned.outDegree[i]
ChainSize(i, ingoing) ==
    IF ingoing THEN returned.ingoingContactChain[i] ELSE returned.outgoingContactChain[i]

NoLoopRows == SelectSeq([k \in DOMAIN t |-> k], LAMBDA k : src[k] # dst[k])

\* networkSummary's result for the same query on the rows without self-loops.
SummaryWithoutLoops ==
    LET b == buildContactsLookup(numberOfIdentifiers,
                                 [k \in DOMAIN NoLoopRows |-> src[NoLoopRows[k]]],
                                 [k \in DOMAIN NoLoopRows |-> dst[NoLoopRows[k]]],
                                 [k \in DOMAIN NoLoopRows |-> t[NoLoopRows[k]]], TRUE)
    IN  NetworkSummaryRoots(b, 1, [inDegree |-> <<>>, outDegree |-> <<>>,
                                   ingoingContactChain |-> <<>>,
                                   outgoingContactChain |-> <<>>])

\* C6: self-loop rows (source = destination) contribute nothing to inDegree,
\* outDegree, ingoingContactChain and outgoingContactChain: the result is the
\* one for the rows without them.
C6_SelfLoopsIgnored ==
    (pc = "networkSummary" /\ error = "") => returned = SummaryWithoutLoops

\* A self-loop inside the window at the root and one at a node of its chain.
C6_Witness ==
    /\ pc = "networkSummary" /\ error = ""
    /\ \E i \in DOMAIN root : \E r1, r2, r3 \in DOMAIN t :
          /\ src[r1] = root[i] /\ dst[r1] = root[i]
          /\ src[r2] = root[i] /\ dst[r2] # root[i]
          /\ src[r3] = dst[r2] /\ dst[r3] = dst[r2]
          /\ \A r \in {r1, r2, r3} : outBegin[i] <= t[r] /\ t[r] <= outEnd[i]
          /\ t[r2] <= t[r3]
          /\ returned.outDegree[i] = 1 /\ returned.outgoingContactChain[i] = 1

\* C7 as stated: when buildContactsLookup cannot obtain storage (malloc
\* returns NULL for at least one row), each of the three entry points ends in
\* an error and returns nothing.
C7_AllocationFailureAborts ==
    (pc \in {"shortestPaths", "traceContacts", "networkSummary"}
        /\ ~mallocOk /\ Len(t) > 0) => error # ""

\* Whether every vector of a list of vectors is empty.
AllEmpty(vectors) == \A j \in DOMAIN vectors : vectors[j] = <<>>

\* C8 as stated: with no rows, all three entry points return empty arrays and
\* raise no error (here where malloc returned a pointer).
C8_EmptyInputEmptyResult ==
    (Len(t) = 0 /\ mallocOk /\ pc \in {"shortestPaths", "traceContacts", "networkSummary"}) =>
        /\ error = ""
        /\ pc = "shortestPaths" =>
              AllEmpty(<<returned.inDistance, returned.inRowid, returned.inIndex,
                         returned.outDistance, returned.outRowid, returned.outIndex>>)
        /\ pc = "traceContacts" => AllEmpty(returned)
        /\ pc = "networkSummary" =>
              AllEmpty(<<returned.inDegree, returned.outDegree,
                         returned.ingoingContactChain, returned.outgoingContactChain>>)

\* C8 amended: with no rows, shortestPaths returns six empty arrays and
\* traceContacts four empty vectors per root, neither raising an error;
\* networkSummary returns four arrays with one 0 per root (empty only when
\* there is no root) and raises no error, unless malloc returned NULL, when
\* it raises its error.
C8_Amended ==
    (Len(t) = 0 /\ pc \in {"shortestPaths", "traceContacts", "networkSummary"}) =>
        /\ pc = "shortestPaths" =>
              /\ error = ""
              /\ AllEmpty(<<returned.inDistance, returned.inRowid, returned.inIndex,
                            returned.outDistance, returned.outRowid, returned.outIndex>>)
        /\ pc = "traceContacts" =>
              /\ error = ""
              /\ Len(returned) = 4 * Len(root) /\ AllEmpty(returned)
        /\ pc = "networkSummary" =>
              IF mallocOk
              THEN /\ error = ""
                   /\ \A a \in {returned.inDegree, returned.outDegree,
                                returned.ingoingContactChain, returned.outgoingContactChain} :
                         a = [k \in DOMAIN root |-> 0]
              ELSE error = "Unable to calculate network summary"

\* networkSummary has answered for two roots and no rows.
C8_Witness ==
    /\ Len(t) = 0 /\ Len(root) = 2
    /\ pc = "networkSummary" /\ error = ""
    /\ returned.ingoingContactChain = <<0, 0>>

----------------------------------------------------------------------------
(* Claims about a followed traversal *)

\* The rows of the bucket of `neighbor` in data[node] (0-based identifiers),
\* read from the caller's arrays.
BucketRows(node, neighbor, ingoing) ==
    {r \in DOMAIN t :
        IF ingoing THEN dst[r] - 1 = node /\ src[r] - 1 = neighbor
        ELSE src[r] - 1 = node /\ dst[r] - 1 = neighbor}

\* Those of them inside the window of the innermost call.
QualifyingRows ==
    {r \in BucketRows(Top.node, Head(Top.its), dir) :
        Top.tBegin <= t[r] /\ t[r] <= Top.tEnd}

\* The first of them in the bucket's order: by time, then by row.
FirstQualifyingRow ==
    CHOOSE r \in QualifyingRows :
        \A q \in QualifyingRows : t[r] < t[q] \/ (t[r] = t[q] /\ r <= q)

\* The innermost call looks at a neighbor off its path whose bucket qualifies.
Discovers == AtKey /\ Head(Top.its) \notin Top.visitedNodes /\ QualifyingRows # {}

\* What doTraceContacts appended in a step.
AppendedRowid == SubSeq(resultRowid', Len(resultRowid) + 1, Len(resultRowid'))
AppendedDistance == SubSeq(resultDistance', Len(resultDistance) + 1, Len(resultDistance'))

\* C3: each time a neighbor bucket qualifies at hop d, doTraceContacts appends
\* every row of that bucket with a timestamp in the current window, each with
\* distance d, and nothing else; so in the specification's example the row
\* 2 -> 3 is reported at distance 2 although node 3 has the direct row 1 -> 3
\* at distance 1.
C3_EveryEventRecorded ==
    /\ [][(pc = "running" /\ kind = "doTraceContacts") =>
            /\ Len(resultRowid') = Len(resultDistance')
            /\ SubSeq(resultRowid', 1, Len(resultRowid)) = resultRowid
            /\ SubSeq(resultDistance', 1, Len(resultDistance)) = resultDistance
            /\ IF Discovers
               THEN /\ {AppendedRowid[k] : k \in DOMAIN AppendedRowid} = QualifyingRows
                    /\ Len(AppendedRowid) = Cardinality(QualifyingRows)
                    /\ \A k \in DOMAIN AppendedDistance :
                          AppendedDistance[k] = Top.distance
               ELSE AppendedRowid = <<>>]_vars
    /\ [](  (pc = "returned" /\ kind = "doTraceContacts" /\ RowsOf(ExampleInput)
             /\ ~dir /\ maxDistanceArg = 0)
          => /\ \E k \in DOMAIN resultRowid : resultRowid[k] = 2 /\ resultDistance[k] = 2
             /\ \E k \in DOMAIN resultRowid : resultRowid[k] = 3 /\ resultDistance[k] = 1)

\* Two rows of one bucket reported one after the other at distance 2.
C3_Witness ==
    /\ kind = "doTraceContacts"
    /\ \E k \in DOMAIN resultRowid :
          /\ k + 1 \in DOMAIN resultRowid
          /\ src[resultRowid[k]] = src[resultRowid[k + 1]]
          /\ dst[resultRowid[k]] = dst[resultRowid[k + 1]]
          /\ t[resultRowid[k]] < t[resultRowid[k + 1]]
          /\ resultDistance[k] = 2 /\ resultDistance[k + 1] = 2

\* C9: a traversal that has started returns, whatever the rows (cycles and
\* equal timestamps included), and never nests more calls than there are
\* identifiers.
C9_Terminates ==
    /\ (pc = "running") ~> (pc = "returned")
    /\ [](Len(stack) <= numberOfIdentifiers)

\* A traversal has returned from a root that lies on a cycle of two contacts
\* with the same timestamp inside the window.
C9_Witness ==
    /\ pc = "returned"
    /\ \E r1, r2 \in DOMAIN t :
          /\ src[r1] = root[query] /\ dst[r1] # root[query]
          /\ src[r2] = dst[r1] /\ dst[r2] = root[query]
          /\ t[r1] = t[r2]
          /\ (IF dir THEN inBegin[query] ELSE outBegin[query]) <= t[r1]
          /\ t[r1] <= (IF dir THEN inEnd[query] ELSE outEnd[query])

\* C10: in doShortestPaths a node's entry is written at its first discovery
\* with the current distance and the row of the first qualifying contact of
\* the bucket looked at; later it changes only at a rediscovery at a strictly
\* smaller distance (then again to the current distance and that row), so a
\* rediscovery at an equal or larger distance leaves it as it is, no other
\* entry changes, and among discoveries at the same distance the one met
\* first in ascending neighbor order stays.
C10_FirstOrStrictlySmaller ==
    /\ [][(pc = "running" /\ kind = "doShortestPaths") =>
            IF Discovers
            THEN LET v == Head(Top.its)
                     entry == [first |-> Top.distance, second |-> FirstQualifyingRow]
                 IN  /\ DOMAIN shortest' = DOMAIN shortest \cup {v}
                     /\ \A u \in DOMAIN shortest \ {v} : shortest'[u] = shortest[u]
                     /\ v \notin DOMAIN shortest => shortest'[v] = entry
                     /\ v \in DOMAIN shortest =>
                           /\ shortest'[v].first <= shortest[v].first
                           /\ Top.distance >= shortest[v].first => shortest'[v] = shortest[v]
                           /\ shortest'[v] # shortest[v] => shortest'[v] = entry
            ELSE shortest' = shortest]_vars
    /\ [](  (pc = "returned" /\ kind = "doShortestPaths" /\ RowsOf(TieInput) /\ ~dir)
          => shortest[3] = [first |-> 2, second |-> 3])

\* doShortestPaths is about to rediscover, at distance 1, a node it holds at
\* distance 2.
C10_Witness ==
    /\ kind = "doShortestPaths" /\ AtKey /\ Passes
    /\ Head(Top.its) \in DOMAIN shortest
    /\ Top.distance = 1 /\ shortest[Head(Top.its)].first = 2

----------------------------------------------------------------------------
(* Claims about re-entry in contactChain *)

\* The neighbor the innermost call of contactChain looks at is marked visited.
AlreadyVisited == chainVisited.visitedNodes[Head(Top.its)].first
\* The bound VisitedNodes holds for it: the latest tEnd (ingoing) or the
\* earliest tBegin (outgoing) of the calls made on it so far.
StoredBound == chainVisited.visitedNodes[Head(Top.its)].second

\* A step in which the innermost call calls contactChain on its neighbor.
Enters == Len(stack') = Len(stack) + 1
\* The call made in that step.
NewCall == stack'[Len(stack')]

\* A bound lies strictly beyond the stored one: later for ingoing, earlier
\* for outgoing.
Extends(tBegin, tEnd) ==
    IF dir THEN tEnd > StoredBound ELSE tBegin < StoredBound

\* The innermost call of contactChain looks at a neighbor marked visited.
LooksAtVisited ==
    pc = "running" /\ kind = "contactChain" /\ AtKey /\ AlreadyVisited

\* C11 as stated: contactChain is called on a node already marked visited
\* only if the window of the new call lies strictly beyond the node's stored
\* bound (later tEnd for ingoing, earlier tBegin for outgoing); otherwise the
\* branch is pruned.
C11_ReentryExtendsBound ==
    [][(LooksAtVisited /\ Enters) => Extends(NewCall.tBegin, NewCall.tEnd)]_vars

\* C11 amended: contactChain is called on a node already marked visited only
\* if the window of the CALLER lies strictly beyond the node's stored bound;
\* otherwise the branch is pruned (the loop goes on and VisitedNodes stays as
\* it is).  The new call's window is narrowed to the bucket's contacts and
\* need not lie beyond the stored bound: the stored bound becomes the better
\* of the two and the node is not counted again.
C11_Amended ==
    [][LooksAtVisited =>
          LET v == Head(Top.its)
              old == StoredBound
              new == IF dir THEN NewCall.tEnd ELSE NewCall.tBegin
          IN  /\ Enters => Extends(Top.tBegin, Top.tEnd)
              /\ Enters =>
                    /\ NewCall.node = v
                    /\ chainVisited'.visitedNodes[v].first
                    /\ chainVisited'.visitedNodes[v].second =
                          (IF dir THEN (IF new > old THEN new ELSE old)
                                  ELSE (IF new < old THEN new ELSE old))
                    /\ chainVisited'.numberOfVisitedNodes = chainVisited.numberOfVisitedNodes
              /\ ~Extends(Top.tBegin, Top.tEnd) =>
                    stack' = Advanced /\ chainVisited' = chainVisited]_vars

\* contactChain is about to be called again on a visited node with a window
\* that does not lie beyond the node's stored bound.
C11_Witness ==
    /\ kind = "contactChain" /\ AtKey /\ Passes /\ AlreadyVisited
    /\ Len(stack) < MaxDepth
    /\ LET w == ChildWindow(TopBucket, TopLower, Top.tBegin, Top.tEnd, dir)
       IN  ~Extends(w[1], w[2])

----------------------------------------------------------------------------
(* Claims about the windows of the calls *)

\* The timestamps of the bucket the innermost call looks at, read from the
\* caller's rows.
BucketTimes == {t[r] : r \in BucketRows(Top.node, Head(Top.its), dir)}
Latest(S) == CHOOSE x \in S : \A y \in S : y <= x
Earliest(S) == CHOOSE x \in S : \A y \in S : x <= y

\* The rows a followed traversal has recorded so far.
RecordedRows ==
    {resultRowid[k] : k \in DOMAIN resultRowid}
        \cup {shortest[v].second : v \in DOMAIN shortest}

\* C12: in doShortestPaths, doTraceContacts and contactChain the call made on
\* a qualifying neighbor from a call with window [tBegin, tEnd] has the window
\* [tBegin, timestamp of the last contact of the bucket <= tEnd] for ingoing
\* and [timestamp of the first contact of the bucket >= tBegin, tEnd] for
\* outgoing; so along the active calls tBegin never decreases and tEnd never
\* increases, every window below the root's is non-empty and inside its
\* caller's, and every recorded row has a timestamp inside the root's window.
C12_ChildWindow ==
    /\ [][(pc = "running" /\ Enters) =>
            /\ NewCall.node = Head(Top.its)
            /\ IF dir
               THEN /\ NewCall.tBegin = Top.tBegin
                    /\ NewCall.tEnd = Latest({x \in BucketTimes : x <= Top.tEnd})
               ELSE /\ NewCall.tBegin = Earliest({x \in BucketTimes : x >= Top.tBegin})
                    /\ NewCall.tEnd = Top.tEnd]_vars
    /\ [](pc \in {"running", "returned"} =>
            /\ \A k \in 2..Len(stack) :
                  /\ stack[k - 1].tBegin <= stack[k].tBegin
                  /\ stack[k].tBegin <= stack[k].tEnd
                  /\ stack[k].tEnd <= stack[k - 1].tEnd
            /\ \A k \in 1..Len(stack) :
                  /\ WindowBegin(query, dir) <= stack[k].tBegin
                  /\ stack[k].tEnd <= WindowEnd(query, dir)
            /\ \A r \in RecordedRows :
                  WindowBegin(query, dir) <= t[r] /\ t[r] <= WindowEnd(query, dir))

\* An ingoing call on a neighbor whose bucket has two contacts at different
\* times inside the caller's window: its window ends at the later one.
C12_Witness ==
    /\ pc = "running" /\ dir /\ Len(stack) >= 2
    /\ LET caller == stack[Len(stack) - 1]
       IN  \E r1, r2 \in BucketRows(caller.node, Top.node, TRUE) :
              /\ caller.tBegin <= t[r1] /\ t[r1] < t[r2] /\ t[r2] <= caller.tEnd
              /\ Top.tBegin = caller.tBegin /\ Top.tEnd = t[r2]

----------------------------------------------------------------------------
(* Claims about the visited set of doShortestPaths and doTraceContacts *)

\* The nodes of the first k active calls: the recursion path down to call k.
PathNodes(k) == {stack[j].node : j \in 1..k}

\* A followed traversal that keeps its visited set per call.
PathLocal == pc = "running" /\ kind \in {"doShortestPaths", "doTraceContacts"}

\* C13: in doShortestPaths and doTraceContacts the nodes of the active calls
\* (the root's included) are pairwise distinct, and the visited set of each
\* call holds exactly the nodes of the path down to it: a call made on a
\* neighbor gets its caller's set plus that neighbor, and no step changes the
\* set of a call that stays active, so what a branch added is gone when the
\* caller turns to the next neighbor.
C13_PathLocalVisited ==
    /\ [](PathLocal =>
            /\ \A j, k \in 1..Len(stack) : j # k => stack[j].node # stack[k].node
            /\ \A k \in 1..Len(stack) : stack[k].visitedNodes = PathNodes(k))
    /\ [][PathLocal =>
            /\ \A k \in 1..Len(stack) : k <= Len(stack') =>
                  /\ stack'[k].node = stack[k].node
                  /\ stack'[k].visitedNodes = stack[k].visitedNodes
            /\ Enters =>
                  /\ NewCall.node = Head(Top.its)
                  /\ NewCall.node \notin Top.visitedNodes
                  /\ NewCall.visitedNodes = Top.visitedNodes \cup {NewCall.node}]_vars

\* doShortestPaths is inside a call on a node that an earlier branch, since
\* returned, had already reached at a smaller distance.
C13_Witness ==
    /\ pc = "running" /\ kind = "doShortestPaths" /\ Len(stack) >= 3
    /\ Top.node \in DOMAIN shortest
    /\ shortest[Top.node].first < Top.distance - 1
    /\ \A k \in 1..(Len(stack) - 1) : Top.node \notin stack[k].visitedNodes

=============================================================================
